---------------------------- MODULE Spec2Model ----------------------------
(***************************************************************************)
(* The two example programs of the toolchain repository:                   *)
(*                                                                         *)
(*   Component A  all/test_package_old/main.cpp   (cstdio: puts, printf)   *)
(*   Component B  demos/cpp-modules/main.cpp      (std::println, test::sum)*)
(*                                                                         *)
(* Each program is a straight-line main().  The model executes main one    *)
(* statement at a time, keeps the bytes written to standard output and the *)
(* exit status, and lets an invoking environment start either executable   *)
(* again and again, recording what every finished invocation produced.     *)
(*                                                                         *)
(* Standard output is a sequence of bytes.  A printable ASCII byte is      *)
(* written as its character, a line feed as "\n", and any other byte as    *)
(* "\\xHH" (the UTF-8 bytes of the two emoji of Component B).              *)
(***************************************************************************)
EXTENDS Integers, Sequences, FiniteSets, TLC

VARIABLES
  prog,     \* the executable that is running: "A", "B", or "none"
  pc,       \* the statement of main about to execute (its source line)
  locals,   \* Component A: the declared locals a, b, c and their values
  tmp,      \* Component B: the value of the argument expression just evaluated
  stdout,   \* the bytes the running invocation has written to standard output
  status,   \* the exit status main has returned: <<>> until it returns, then <<0>>
  trace,    \* the statements the running invocation has executed, in order
  wfailed,  \* whether some write of the running invocation has failed
  history,  \* one record per finished invocation: program, output, outcome
  faulty    \* environment: whether a write to standard output can fail

vars == <<prog, pc, locals, tmp, stdout, status, trace, wfailed, history, faulty>>

(***************************************************************************)
(* Bounds of the model.                                                    *)
(***************************************************************************)
\* How many invocations the environment makes, one after another.
MaxRuns == 3

(***************************************************************************)
(* The string literals of the two sources, byte for byte.                  *)
(***************************************************************************)
HelloWorldText ==
  <<"H", "e", "l", "l", "o", ",", " ", "w", "o", "r", "l", "d", "!">>

PrintfFormat1 ==
  <<"a", " ", "=", " ", "%", "d", ",", " ", "b", " ", "=", " ", "%", "d",
    "\n">>

PrintfFormat2 ==
  <<"a", " ", "+", " ", "b", " ", "=", " ", "c", " ", "=", " ", "%", "d",
    "\n">>

BannerOpenFormat ==
  <<"\n", "=", "=", "=", "=", "=", "=", "=", "=", "=", "=", " ", "R", "U",
    "N", "N", "I", "N", "G", " ", "M", "O", "D", "U", "L", "E", "S", " ",
    "D", "E", "M", "O", " ", "=", "=", "=", "=", "=", "=", "=", "=", "=",
    "=">>

ToolchainFormat ==
  <<"G", "N", "U", " ", "T", "o", "o", "l", "c", "h", "a", "i", "n", " ",
    "D", "e", "m", "o", "!">>

HelloFormat ==
  <<"\\xF0", "\\x9F", "\\x91", "\\x8B", " ", "H", "e", "l", "l", "o", ",",
    " ", "\\xF0", "\\x9F", "\\x8C", "\\x90", " ", "W", "o", "r", "l", "d">>

SumIntFormat ==
  <<"s", "u", "m", "(", "5", ",", " ", "6", ")", " ", "=", " ", "{", "}">>

SumDoubleFormat ==
  <<"s", "u", "m", "(", "7", ".", "2", ",", " ", "2", ".", "5", ")", " ",
    "=", " ", "{", "}">>

BannerCloseFormat ==
  <<"=", "=", "=", "=", "=", "=", "=", "=", "=", "=", " ", "D", "E", "M",
    "O", " ", "F", "I", "N", "I", "S", "H", "E", "D", " ", "=", "=", "=",
    "=", "=", "=", "=", "=", "=", "=", "\n">>

(***************************************************************************)
(* int: 32 bits, two's complement.  Signed overflow is undefined.          *)
(***************************************************************************)
INT_MAX == 2147483647

INT_MIN == -INT_MAX - 1

\* The values an int expression may have after signed overflow: any int.
\* (Kept small: the outcome set only has to show that it is not a single value.)
OverflowOutcomes == {INT_MIN, 0, INT_MAX}

\* x + y on int.  The sum is formed without leaving the 32-bit range.
IntAddInRange(x, y) ==
  IF y >= 0 THEN x <= INT_MAX - y ELSE x >= INT_MIN - y

IntAdd(x, y) ==
  IF IntAddInRange(x, y) THEN {x + y} ELSE OverflowOutcomes

(***************************************************************************)
(* Decimal conversion of an int: what %d and {} write for it.              *)
(***************************************************************************)
DigitChar(d) ==
  <<"0", "1", "2", "3", "4", "5", "6", "7", "8", "9">>[d + 1]

NatDigits[n \in Nat] ==
  IF n < 10 THEN <<DigitChar(n)>>
  ELSE NatDigits[n \div 10] \o <<DigitChar(n % 10)>>

\* INT_MIN has no int negation: its digits are those of INT_MAX with the
\* last one raised by one.
FormatInt[n \in Int] ==
  IF n >= 0 THEN NatDigits[n]
  ELSE IF n = INT_MIN
    THEN <<"-">> \o NatDigits[INT_MAX \div 10] \o <<DigitChar((INT_MAX % 10) + 1)>>
    ELSE <<"-">> \o NatDigits[-n]

(***************************************************************************)
(* std::printf: the format is copied byte by byte; each %d is replaced by  *)
(* the decimal conversion of the next int argument.  (A %d with no         *)
(* argument left is undefined; neither call of the source has one, and the *)
(* model copies it.)                                                       *)
(***************************************************************************)
\* The position of the first %d of a format, or 0.
FirstConversion[fmt \in Seq(STRING)] ==
  LET at == {i \in 1..(Len(fmt) - 1) : fmt[i] = "%" /\ fmt[i + 1] = "d"}
  IN  IF at = {} THEN 0 ELSE CHOOSE i \in at : \A j \in at : i <= j

PrintfText[fmt \in Seq(STRING), args \in Seq(Int)] ==
  IF FirstConversion[fmt] = 0 \/ args = <<>> THEN fmt
  ELSE SubSeq(fmt, 1, FirstConversion[fmt] - 1) \o FormatInt[Head(args)]
         \o PrintfText[SubSeq(fmt, FirstConversion[fmt] + 2, Len(fmt)), Tail(args)]

\* std::puts: the string, then a line feed.
PutsText(s) == s \o <<"\n">>

(***************************************************************************)
(* The lines of an output: the byte sequences between line feeds.  Bytes   *)
(* after the last line feed form an unfinished line and are not a line.    *)
(***************************************************************************)
LineFeeds(bytes) == {i \in 1..Len(bytes) : bytes[i] = "\n"}

\* The position of the j-th line feed (0 for j = 0).
NthLineFeed(bytes, j) ==
  IF j = 0 THEN 0
  ELSE CHOOSE i \in LineFeeds(bytes) :
         Cardinality({k \in LineFeeds(bytes) : k <= i}) = j

Lines(bytes) ==
  [j \in 1..Cardinality(LineFeeds(bytes)) |->
     SubSeq(bytes, NthLineFeed(bytes, j - 1) + 1, NthLineFeed(bytes, j) - 1)]

\* The bytes after the last line feed.
Unfinished(bytes) ==
  SubSeq(bytes, NthLineFeed(bytes, Cardinality(LineFeeds(bytes))) + 1, Len(bytes))

\* The positions of line l among the lines of an output.
LinePositions(bytes, l) == {i \in 1..Len(Lines(bytes)) : Lines(bytes)[i] = l}

(***************************************************************************)
(* double: IEEE-754 binary64.  A mantissa has 53 bits and does not fit a   *)
(* 32-bit integer of TLC, so naturals of any size are kept as sequences    *)
(* of limbs of LimbBits bits, least significant first, with no leading     *)
(* zero limb.  The helpers are functions: a function is applied to the     *)
(* values of its arguments, so no argument is evaluated twice.             *)
(***************************************************************************)
LimbBits == 15

IntPow[k \in Nat, n \in Nat] == IF n = 0 THEN 1 ELSE k * IntPow[k, n - 1]

Base == IntPow[2, LimbBits]

Big == Seq(Nat)

\* F applied to the value of x, which is evaluated once.
WithValue(x, F(_)) == CHOOSE r \in {F(v) : v \in {x}} : TRUE

Max(i, j) == IF i >= j THEN i ELSE j

Min(i, j) == IF i <= j THEN i ELSE j

BigTrim[x \in Big] ==
  IF x = <<>> THEN <<>>
  ELSE IF x[Len(x)] = 0 THEN BigTrim[SubSeq(x, 1, Len(x) - 1)]
  ELSE x

BigOfInt[n \in Nat] ==
  IF n = 0 THEN <<>> ELSE <<n % Base>> \o BigOfInt[n \div Base]

BigOne == <<1>>

BigIsOdd(x) == x # <<>> /\ Head(x) % 2 = 1

BigAddCarry[x \in Big, y \in Big, carry \in Nat] ==
  IF x = <<>> /\ y = <<>> THEN BigOfInt[carry]
  ELSE LET xh == IF x = <<>> THEN 0 ELSE Head(x)
           yh == IF y = <<>> THEN 0 ELSE Head(y)
           t  == xh + yh + carry
       IN  <<t % Base>>
             \o BigAddCarry[IF x = <<>> THEN <<>> ELSE Tail(x),
                            IF y = <<>> THEN <<>> ELSE Tail(y), t \div Base]

BigAdd[x \in Big, y \in Big] == BigAddCarry[x, y, 0]

\* x - y for x >= y.
BigSubBorrow[x \in Big, y \in Big, borrow \in Nat] ==
  IF x = <<>> THEN <<>>
  ELSE LET yh == IF y = <<>> THEN 0 ELSE Head(y)
           t  == Head(x) - yh - borrow
       IN  <<IF t < 0 THEN t + Base ELSE t>>
             \o BigSubBorrow[Tail(x), IF y = <<>> THEN <<>> ELSE Tail(y),
                             IF t < 0 THEN 1 ELSE 0]

BigSub[x \in Big, y \in Big] == BigTrim[BigSubBorrow[x, y, 0]]

\* -1, 0 or 1 as x is less than, equal to or greater than y, comparing
\* limbs i, i-1, ..., 1 of two numbers of the same length.
BigCmpFrom[x \in Big, y \in Big, i \in Nat] ==
  IF i = 0 THEN 0
  ELSE IF x[i] < y[i] THEN -1
  ELSE IF x[i] > y[i] THEN 1
  ELSE BigCmpFrom[x, y, i - 1]

BigCmp[x \in Big, y \in Big] ==
  IF Len(x) < Len(y) THEN -1
  ELSE IF Len(x) > Len(y) THEN 1
  ELSE BigCmpFrom[x, y, Len(x)]

\* x * k for a small k.
BigMulCarry[x \in Big, k \in Nat, carry \in Nat] ==
  IF x = <<>> THEN BigOfInt[carry]
  ELSE LET t == Head(x) * k + carry
       IN  <<t % Base>> \o BigMulCarry[Tail(x), k, t \div Base]

BigMulSmall[x \in Big, k \in Nat] == BigTrim[BigMulCarry[x, k, 0]]

\* Long division of x by a small k from limb i down; r is the remainder
\* and q the quotient of the limbs above i.
BigDivFrom[x \in Big, k \in Nat, i \in Nat, r \in Nat, q \in Big] ==
  IF i = 0 THEN [q |-> BigTrim[q], r |-> r]
  ELSE LET t == r * Base + x[i]
       IN  BigDivFrom[x, k, i - 1, t % k, <<t \div k>> \o q]

BigDivSmall[x \in Big, k \in Nat] == BigDivFrom[x, k, Len(x), 0, <<>>].q

BigModSmall[x \in Big, k \in Nat] == BigDivFrom[x, k, Len(x), 0, <<>>].r

\* The largest j with k^j <= Base: a power of k that is still a small factor.
ChunkExp[k \in Nat] ==
  CHOOSE j \in 1..LimbBits : IntPow[k, j] <= Base /\ IntPow[k, j + 1] > Base

\* x * k^n and floor(x / k^n), a chunk of the power at a time.
BigMulPow[x \in Big, k \in Nat, n \in Nat] ==
  IF n <= ChunkExp[k] THEN BigMulSmall[x, IntPow[k, n]]
  ELSE BigMulPow[BigMulSmall[x, IntPow[k, ChunkExp[k]]], k, n - ChunkExp[k]]

BigDivPow[x \in Big, k \in Nat, n \in Nat] ==
  IF n <= ChunkExp[k] THEN BigDivSmall[x, IntPow[k, n]]
  ELSE BigDivPow[BigDivSmall[x, IntPow[k, ChunkExp[k]]], k, n - ChunkExp[k]]

\* The number of bits of x: 2^(BitLen - 1) <= x < 2^BitLen for x > 0.
BitLen[x \in Big] ==
  IF x = <<>> THEN 0
  ELSE (Len(x) - 1) * LimbBits
         + (CHOOSE j \in 1..LimbBits :
              IntPow[2, j - 1] <= x[Len(x)] /\ x[Len(x)] < IntPow[2, j])

(***************************************************************************)
(* A positive normal double is [m, e] with 2^52 <= m < 2^53 and value      *)
(* m * 2^e.  Zero, negative values, subnormals, infinities and NaN are     *)
(* not formed by either program and are not represented.                   *)
(***************************************************************************)
MantissaBits == 53

MantissaLow == BigMulPow[BigOne, 2, MantissaBits - 1]

MantissaHigh == BigMulPow[BigOne, 2, MantissaBits]

Double == [m : Big, e : Int]

\* Round to nearest, ties to even: q is the quotient rounded down and half
\* compares the discarded part with one half (-1 below, 0 equal, 1 above).
RoundHalfEven(q, half) ==
  IF half > 0 \/ (half = 0 /\ BigIsOdd(q)) THEN BigAdd[q, BigOne] ELSE q

\* A quotient rounded down, whether nothing was discarded, and how the
\* discarded part compares with one half.
Quotient == [q : Big, exact : BOOLEAN, half : Int]

\* floor(num / (2^a * 10^b)) with how the discarded part compares with 1/2.
DivideScaled[num \in Big, a \in Nat, b \in Nat] ==
  WithValue(BigDivPow[BigDivPow[num, 2, a], 10, b], LAMBDA q :
    WithValue(BigSub[num, BigMulPow[BigMulPow[q, 2, a], 10, b]], LAMBDA rem :
      [q     |-> q,
       exact |-> rem = <<>>,
       half  |-> BigCmp[BigMulSmall[rem, 2],
                        BigMulPow[BigMulPow[BigOne, 2, a], 10, b]]]))

\* m * 2^e with a mantissa that rounding may have carried up to 2^53.
Normalised[m \in Big, e \in Int] ==
  IF m = MantissaHigh THEN [m |-> MantissaLow, e |-> e + 1]
  ELSE [m |-> m, e |-> e]

\* n / (10^b * 2^a) * 2^(e + a), rounded, given 2^52 <= n / (10^b * 2^a) < 2^53.
NearestWith[n \in Big, b \in Nat, e \in Int, a \in Int] ==
  WithValue(DivideScaled[BigMulPow[n, 2, Max(-a, 0)], Max(a, 0), b], LAMBDA d :
    Normalised[RoundHalfEven(d.q, d.half), e + a])

\* Whether n / (10^b * 2^a) < 2^53.
BelowHigh[n \in Big, b \in Nat, a \in Int] ==
  BigCmp[BigMulPow[n, 2, Max(-a, 0)],
         BigMulPow[BigMulPow[MantissaHigh, 10, b], 2, Max(a, 0)]] < 0

\* The double nearest to n * 10^(-b) * 2^e, for a natural n > 0.  The binary
\* exponent a, with 2^52 <= n / (10^b * 2^a) < 2^53, is one of the two values
\* that the bit lengths of n and 10^b leave.
NearestDouble[n \in Big, b \in Nat, e \in Int] ==
  WithValue(BitLen[n] - BitLen[BigMulPow[BigOne, 10, b]] - MantissaBits, LAMBDA a0 :
    NearestWith[n, b, e, IF BelowHigh[n, b, a0] THEN a0 ELSE a0 + 1])

\* A floating literal with the decimal digits `digits`, the last `frac` of
\* them after the point: 7.2 is DoubleLiteral(72, 1).
DoubleLiteral(digits, frac) == NearestDouble[BigOfInt[digits], frac, 0]

\* x + y on double: the exact sum, rounded once.
DoubleAdd[x \in Double, y \in Double] ==
  NearestDouble[BigAdd[BigMulPow[x.m, 2, x.e - Min(x.e, y.e)],
                       BigMulPow[y.m, 2, y.e - Min(x.e, y.e)]],
                0, Min(x.e, y.e)]

(***************************************************************************)
(* {} for a double: std::to_chars(first, last, value), the shortest        *)
(* decimal that converts back to the same double, written in fixed or in   *)
(* scientific notation, whichever is shorter (fixed on a tie).             *)
(***************************************************************************)
MaxDigits == 17

\* The decimal c * 10^(-p).
Decimal == [c : Big, p : Int]

\* floor(x * 10^p), for any integer p, with the discarded part.
ScaledDecimal[x \in Double, p \in Int] ==
  DivideScaled[BigMulPow[BigMulPow[x.m, 2, Max(x.e, 0)], 10, Max(p, 0)],
               Max(-x.e, 0), Max(-p, 0)]

\* The decimal exponent k of x: 10^k <= x < 10^(k+1).  The search starts from
\* the estimate floor((52 + e) * log10(2)) and moves by one.
DecimalExponentFrom[x \in Double, k \in Int] ==
  WithValue(ScaledDecimal[x, -k].q, LAMBDA q :
    IF q = <<>> THEN DecimalExponentFrom[x, k - 1]
    ELSE IF BigCmp[q, BigOfInt[10]] >= 0 THEN DecimalExponentFrom[x, k + 1]
    ELSE k)

DecimalExponent[x \in Double] ==
  DecimalExponentFrom[x, ((MantissaBits - 1 + x.e) * 30103) \div 100000]

\* Whether the decimal c * 10^(-p) converts back to x.
RoundTrips[x \in Double, c \in Big, p \in Int] ==
  c # <<>> /\ NearestDouble[BigMulPow[c, 10, Max(-p, 0)], Max(p, 0), 0] = x

\* Of the decimals lo * 10^(-p) and (lo + 1) * 10^(-p) around x, the one
\* that converts back to x (the nearer one if both do), or <<>>.
Candidate[x \in Double, p \in Int, s \in Quotient] ==
  WithValue(RoundTrips[x, s.q, p], LAMBDA loOk :
    WithValue(~s.exact /\ RoundTrips[x, BigAdd[s.q, BigOne], p], LAMBDA hiOk :
      IF loOk /\ hiOk THEN <<RoundHalfEven(s.q, s.half)>>
      ELSE IF loOk THEN <<s.q>>
      ELSE IF hiOk THEN <<BigAdd[s.q, BigOne]>>
      ELSE <<>>))

\* The shortest decimal c * 10^(-p) that converts back to x, trying n, n+1,
\* ... significant digits, for x with decimal exponent k.
ShortestFrom[x \in Double, k \in Int, n \in Nat] ==
  WithValue(ScaledDecimal[x, n - 1 - k], LAMBDA s :
    WithValue(Candidate[x, n - 1 - k, s], LAMBDA found :
      IF found # <<>> THEN [c |-> found[1], p |-> n - 1 - k]
      ELSE IF n >= MaxDigits
        THEN [c |-> RoundHalfEven(s.q, s.half), p |-> n - 1 - k]
        ELSE ShortestFrom[x, k, n + 1]))

ShortestDecimal[x \in Double] == ShortestFrom[x, DecimalExponent[x], 1]

\* The decimal digits of a natural, most significant first.
BigDigits[c \in Big] ==
  IF c = <<>> THEN <<>>
  ELSE BigDigits[BigDivSmall[c, 10]] \o <<DigitChar(BigModSmall[c, 10])>>

\* Trailing zeros carry no information: 970 * 10^-2 is 97 * 10^-1.
StripZeros[d \in Decimal] ==
  IF d.c # <<>> /\ BigModSmall[d.c, 10] = 0
    THEN StripZeros[[c |-> BigDivSmall[d.c, 10], p |-> d.p - 1]]
    ELSE d

Zeros(n) == [i \in 1..n |-> "0"]

\* digits ds with decimal exponent k (d.ddd * 10^k) in fixed notation.
FixedNotation[ds \in Seq(STRING), k \in Int] ==
  IF k >= Len(ds) - 1 THEN ds \o Zeros(k - (Len(ds) - 1))
  ELSE IF k >= 0
    THEN SubSeq(ds, 1, k + 1) \o <<".">> \o SubSeq(ds, k + 2, Len(ds))
    ELSE <<"0", ".">> \o Zeros(-k - 1) \o ds

\* The same in scientific notation: d[.ddd]e+XX, at least two exponent digits.
ScientificNotation[ds \in Seq(STRING), k \in Int] ==
  <<Head(ds)>>
    \o (IF Len(ds) > 1 THEN <<".">> \o Tail(ds) ELSE <<>>)
    \o <<"e", IF k < 0 THEN "-" ELSE "+">>
    \o (IF Max(k, -k) < 10 THEN <<"0">> ELSE <<>>) \o NatDigits[Max(k, -k)]

\* The shorter of two texts, the first on a tie.
Shorter[s \in Seq(STRING), t \in Seq(STRING)] == IF Len(s) <= Len(t) THEN s ELSE t

FormatDecimal[ds \in Seq(STRING), k \in Int] ==
  Shorter[FixedNotation[ds, k], ScientificNotation[ds, k]]

FormatDouble[x \in Double] ==
  WithValue(StripZeros[ShortestDecimal[x]], LAMBDA d :
    WithValue(BigDigits[d.c], LAMBDA ds : FormatDecimal[ds, Len(ds) - 1 - d.p]))

(***************************************************************************)
(* Values of Component B's argument expressions: an int or a double.       *)
(***************************************************************************)
IntVal(n) == [type |-> "int", v |-> n]

DoubleVal(d) == [type |-> "double", v |-> d]

\* What a replacement field {} writes for an argument.
FormatArg(x) == IF x.type = "int" THEN FormatInt[x.v] ELSE FormatDouble[x.v]

\* The position of the first {} of a format string, or 0.
FirstField[fmt \in Seq(STRING)] ==
  LET at == {i \in 1..(Len(fmt) - 1) : fmt[i] = "{" /\ fmt[i + 1] = "}"}
  IN  IF at = {} THEN 0 ELSE CHOOSE i \in at : \A j \in at : i <= j

\* The format is copied byte by byte; each {} is replaced by the next argument.
RECURSIVE FormatText(_, _)
FormatText(fmt, args) ==
  WithValue(FirstField[fmt], LAMBDA i :
    IF i = 0 \/ args = <<>> THEN fmt
    ELSE SubSeq(fmt, 1, i - 1) \o FormatArg(Head(args))
           \o WithValue(SubSeq(fmt, i + 2, Len(fmt)), LAMBDA rest :
                 FormatText(rest, Tail(args))))

\* std::println: the formatted text, then a line feed.
PrintlnText(fmt, args) == FormatText(fmt, args) \o <<"\n">>

(***************************************************************************)
(* test::sum of the imported module test_module: the sum of two arguments  *)
(* of the same type, in the arithmetic of that type.  The result is a set: *)
(* one value, or the outcomes of a signed overflow.                        *)
(***************************************************************************)
sum(x, y) ==
  IF x.type = "int"
    THEN {IntVal(r) : r \in IntAdd(x.v, y.v)}
    ELSE {DoubleVal(DoubleAdd[x.v, y.v])}

(***************************************************************************)
(* The environment of an invocation.  A write to standard output succeeds, *)
(* or, in a faulty environment, may fail (a closed terminal, a full disk   *)
(* behind an unbuffered stream).  A failed write adds no bytes.            *)
(***************************************************************************)
WriteOutcomes == IF faulty THEN {TRUE, FALSE} ELSE {TRUE}

NoLocals == [n \in {} |-> 0]

Running(p, l) == prog = p /\ pc = l

Event(op) == [line |-> pc, op |-> op]

(***************************************************************************)
(* Component A: all/test_package_old/main.cpp                              *)
(***************************************************************************)
\* The same with the first two output statements exchanged.
NextLineA_reordered(l) ==
  CASE l = "L6"  -> "L7"
    [] l = "L7"  -> "L8"
    [] l = "L8"  -> "L11"
    [] l = "L11" -> "L10"
    [] l = "L10" -> "L12"
    [] l = "L12" -> "L14"

\* The statement executed after statement l of Component A's main.
NextLineA(l) ==
  CASE l = "L6"  -> "L7"
    [] l = "L7"  -> "L8"
    [] l = "L8"  -> "L10"
    [] l = "L10" -> "L11"
    [] l = "L11" -> "L12"
    [] l = "L12" -> "L14"

\* a initialised from a counter that outlives the invocation.
InitA_static == 5 + Len(history)

InitA == 5

InitB == 12

\* c formed with the wrong operator.
InitC_difference(l) == {l.a - l.b}

\* int c = a + b;
InitC(l) == IntAdd(l.a, l.b)

\* The arguments of the first printf in the wrong order.
PrintfArgs1_swapped(l) == <<l.b, l.a>>

\* The arguments after the format of the two printf calls.
PrintfArgs1(l) == <<l.a, l.b>>

PrintfArgs2(l) == <<l.c>>

ReturnValueA == 0

\* int a = 5;
DeclareA ==
  /\ Running("A", "L6")
  /\ locals' = locals @@ ("a" :> InitA)
  /\ pc' = NextLineA(pc)
  /\ trace' = Append(trace, Event("decl"))
  /\ UNCHANGED <<prog, tmp, stdout, status, wfailed, history, faulty>>

\* int b = 12;
DeclareB ==
  /\ Running("A", "L7")
  /\ locals' = locals @@ ("b" :> InitB)
  /\ pc' = NextLineA(pc)
  /\ trace' = Append(trace, Event("decl"))
  /\ UNCHANGED <<prog, tmp, stdout, status, wfailed, history, faulty>>

\* int c = a + b;
DeclareC ==
  /\ Running("A", "L8")
  /\ \E v \in InitC(locals) : locals' = locals @@ ("c" :> v)
  /\ pc' = NextLineA(pc)
  /\ trace' = Append(trace, Event("decl"))
  /\ UNCHANGED <<prog, tmp, stdout, status, wfailed, history, faulty>>

\* A cstdio call writing text: its result (EOF or a negative count on a
\* failed write) is discarded by main, which goes on to the next statement.
StdioCall(op, text) ==
  /\ \E ok \in WriteOutcomes :
       /\ stdout' = IF ok THEN stdout \o text ELSE stdout
       /\ wfailed' = (wfailed \/ ~ok)
  /\ pc' = NextLineA(pc)
  /\ trace' = Append(trace, Event(op))
  /\ UNCHANGED <<prog, locals, tmp, status, history, faulty>>

\* std::puts("Hello, world!");
PutsHello ==
  /\ Running("A", "L10")
  /\ StdioCall("puts", PutsText(HelloWorldText))

\* std::printf("a = %d, b = %d\n", a, b);
PrintfInputs ==
  /\ Running("A", "L11")
  /\ StdioCall("printf", PrintfText[PrintfFormat1, PrintfArgs1(locals)])

\* std::printf("a + b = c = %d\n", c);
PrintfSum ==
  /\ Running("A", "L12")
  /\ StdioCall("printf", PrintfText[PrintfFormat2, PrintfArgs2(locals)])

\* return 0;
ReturnA ==
  /\ Running("A", "L14")
  /\ status' = <<ReturnValueA>>
  /\ pc' = "done"
  /\ trace' = Append(trace, Event("return"))
  /\ UNCHANGED <<prog, locals, tmp, stdout, wfailed, history, faulty>>

(***************************************************************************)
(* Component B: demos/cpp-modules/main.cpp                                 *)
(*                                                                         *)
(* The statements of lines 11 and 12 take two steps each: the argument     *)
(* test::sum(...) is evaluated, then std::println is called with it.       *)
(***************************************************************************)
\* The same with the second sum statement left out.
NextLineB_skip(l) ==
  CASE l = "L8"      -> "L9"
    [] l = "L9"      -> "L10"
    [] l = "L10"     -> "L11sum"
    [] l = "L11sum"  -> "L11"
    [] l = "L11"     -> "L13"
    [] l = "L13"     -> "L14"

\* The same with the two sum statements exchanged.
NextLineB_reordered(l) ==
  CASE l = "L8"      -> "L9"
    [] l = "L9"      -> "L10"
    [] l = "L10"     -> "L12sum"
    [] l = "L12sum"  -> "L12"
    [] l = "L12"     -> "L11sum"
    [] l = "L11sum"  -> "L11"
    [] l = "L11"     -> "L13"
    [] l = "L13"     -> "L14"

\* The step executed after step l of Component B's main.
NextLineB(l) ==
  CASE l = "L8"      -> "L9"
    [] l = "L9"      -> "L10"
    [] l = "L10"     -> "L11sum"
    [] l = "L11sum"  -> "L11"
    [] l = "L11"     -> "L12sum"
    [] l = "L12sum"  -> "L12"
    [] l = "L12"     -> "L13"
    [] l = "L13"     -> "L14"

\* The first call of test::sum with a mistyped literal.
SumIntArgs_typo == <<IntVal(5), IntVal(5)>>

\* The arguments of the two calls of test::sum: (5, 6) and (7.2, 2.5).
SumIntArgs == <<IntVal(5), IntVal(6)>>

\* The second call of test::sum with a mistyped literal.
SumDoubleArgs_typo ==
  <<DoubleVal(DoubleLiteral(72, 1)), DoubleVal(DoubleLiteral(26, 1))>>

SumDoubleArgs ==
  <<DoubleVal(DoubleLiteral(72, 1)), DoubleVal(DoubleLiteral(25, 1))>>

\* main returning a failure status.
ReturnValueB_failure == 0 + 1

ReturnValueB == 0

\* A std::println call writing text.  A failed write throws
\* std::system_error; main catches nothing, so the exception ends the
\* program through std::terminate without main returning.
PrintlnCall(text) ==
  /\ \E ok \in WriteOutcomes :
       /\ stdout' = IF ok THEN stdout \o text ELSE stdout
       /\ wfailed' = (wfailed \/ ~ok)
       /\ pc' = IF ok THEN NextLineB(pc) ELSE "aborted"
  /\ trace' = Append(trace, Event("println"))
  /\ tmp' = <<>>
  /\ UNCHANGED <<prog, locals, status, history, faulty>>

\* The evaluation of test::sum(x, y) as an argument.
SumCall(args) ==
  /\ \E r \in sum(args[1], args[2]) : tmp' = <<r>>
  /\ pc' = NextLineB(pc)
  /\ trace' = Append(trace, Event("sum"))
  /\ UNCHANGED <<prog, locals, stdout, status, wfailed, history, faulty>>

\* std::println("\n========== RUNNING MODULES DEMO ==========");
PrintlnBannerOpen ==
  /\ Running("B", "L8")
  /\ PrintlnCall(PrintlnText(BannerOpenFormat, <<>>))

\* std::println("GNU Toolchain Demo!");
PrintlnToolchain ==
  /\ Running("B", "L9")
  /\ PrintlnCall(PrintlnText(ToolchainFormat, <<>>))

\* std::println("<wave> Hello, <globe> World");
PrintlnHello ==
  /\ Running("B", "L10")
  /\ PrintlnCall(PrintlnText(HelloFormat, <<>>))

\* test::sum(5, 6)
CallSumInt ==
  /\ Running("B", "L11sum")
  /\ SumCall(SumIntArgs)

\* std::println("sum(5, 6) = {}", ...);
PrintlnSumInt ==
  /\ Running("B", "L11")
  /\ PrintlnCall(PrintlnText(SumIntFormat, tmp))

\* test::sum(7.2, 2.5)
CallSumDouble ==
  /\ Running("B", "L12sum")
  /\ SumCall(SumDoubleArgs)

\* std::println("sum(7.2, 2.5) = {}", ...);
PrintlnSumDouble ==
  /\ Running("B", "L12")
  /\ PrintlnCall(PrintlnText(SumDoubleFormat, tmp))

\* std::println("========== DEMO FINISHED ==========\n");
PrintlnBannerClose ==
  /\ Running("B", "L13")
  /\ PrintlnCall(PrintlnText(BannerCloseFormat, <<>>))

\* return 0;
ReturnB ==
  /\ Running("B", "L14")
  /\ status' = <<ReturnValueB>>
  /\ pc' = "done"
  /\ trace' = Append(trace, Event("return"))
  /\ UNCHANGED <<prog, locals, tmp, stdout, wfailed, history, faulty>>

(***************************************************************************)
(* The invoking environment.  Every invocation is a new process: nothing   *)
(* of the previous one is passed on.                                       *)
(***************************************************************************)
Programs == {"A", "B"}

\* Component B entered past its opening banner.
EntryLine_late(p) == IF p = "A" THEN "L6" ELSE "L9"

\* The first statement of main.
EntryLine(p) == IF p = "A" THEN "L6" ELSE "L8"

Invoke(p) ==
  /\ pc = "idle"
  /\ Len(history) < MaxRuns
  /\ prog' = p
  /\ pc' = EntryLine(p)
  /\ locals' = NoLocals
  /\ tmp' = <<>>
  /\ stdout' = <<>>
  /\ status' = <<>>
  /\ trace' = <<>>
  /\ wfailed' = FALSE
  /\ UNCHANGED <<history, faulty>>

\* The environment collects the output and the outcome of a finished
\* invocation.
Collect ==
  /\ pc \in {"done", "aborted"}
  /\ history' = Append(history,
                       [prog |-> prog, out |-> stdout, end |-> pc,
                        status |-> status, wfailed |-> wfailed])
  /\ pc' = "idle"
  /\ prog' = "none"
  /\ UNCHANGED <<locals, tmp, stdout, status, trace, wfailed, faulty>>

StepA ==
  \/ DeclareA
  \/ DeclareB
  \/ DeclareC
  \/ PutsHello
  \/ PrintfInputs
  \/ PrintfSum
  \/ ReturnA

StepB ==
  \/ PrintlnBannerOpen
  \/ PrintlnToolchain
  \/ PrintlnHello
  \/ CallSumInt
  \/ PrintlnSumInt
  \/ CallSumDouble
  \/ PrintlnSumDouble
  \/ PrintlnBannerClose
  \/ ReturnB

Step == StepA \/ StepB

Start == \E p \in Programs : Invoke(p)

Next == Start \/ Step \/ Collect

InitCommon ==
  /\ prog = "none"
  /\ pc = "idle"
  /\ locals = NoLocals
  /\ tmp = <<>>
  /\ stdout = <<>>
  /\ status = <<>>
  /\ trace = <<>>
  /\ wfailed = FALSE
  /\ history = <<>>

\* Standard output accepts every write.
Init == InitCommon /\ faulty = FALSE

Spec == Init /\ [][Next]_vars

\* The same programs where a write to standard output may fail.
InitIO == InitCommon /\ faulty = TRUE

SpecIO == InitIO /\ [][Next]_vars

\* A started program is not held up: its next statement is executed.
FairSpec == Spec /\ WF_vars(Step)

(***************************************************************************)
(* The texts the properties below speak of, written out byte for byte.     *)
(***************************************************************************)
ExpectedOutputA ==
  <<"H", "e", "l", "l", "o", ",", " ", "w", "o", "r", "l", "d", "!", "\n",
    "a", " ", "=", " ", "5", ",", " ", "b", " ", "=", " ", "1", "2", "\n",
    "a", " ", "+", " ", "b", " ", "=", " ", "c", " ", "=", " ", "1", "7",
    "\n">>

GreetingLineA ==
  <<"H", "e", "l", "l", "o", ",", " ", "w", "o", "r", "l", "d", "!">>

InputsLineA ==
  <<"a", " ", "=", " ", "5", ",", " ", "b", " ", "=", " ", "1", "2">>

SumLineA ==
  <<"a", " ", "+", " ", "b", " ", "=", " ", "c", " ", "=", " ", "1", "7">>

SumIntLineB ==
  <<"s", "u", "m", "(", "5", ",", " ", "6", ")", " ", "=", " ", "1", "1">>

SumDoubleLineB ==
  <<"s", "u", "m", "(", "7", ".", "2", ",", " ", "2", ".", "5", ")", " ",
    "=", " ", "9", ".", "7">>

BannerOpenLineB ==
  <<"=", "=", "=", "=", "=", "=", "=", "=", "=", "=", " ", "R", "U", "N",
    "N", "I", "N", "G", " ", "M", "O", "D", "U", "L", "E", "S", " ", "D",
    "E", "M", "O", " ", "=", "=", "=", "=", "=", "=", "=", "=", "=", "=">>

ToolchainLineB ==
  <<"G", "N", "U", " ", "T", "o", "o", "l", "c", "h", "a", "i", "n", " ",
    "D", "e", "m", "o", "!">>

HelloLineB ==
  <<"\\xF0", "\\x9F", "\\x91", "\\x8B", " ", "H", "e", "l", "l", "o", ",",
    " ", "\\xF0", "\\x9F", "\\x8C", "\\x90", " ", "W", "o", "r", "l", "d">>

BannerCloseLineB ==
  <<"=", "=", "=", "=", "=", "=", "=", "=", "=", "=", " ", "D", "E", "M",
    "O", " ", "F", "I", "N", "I", "S", "H", "E", "D", " ", "=", "=", "=",
    "=", "=", "=", "=", "=", "=", "=">>

SumIntPrefixB ==
  <<"s", "u", "m", "(", "5", ",", " ", "6", ")", " ", "=", " ">>

SumDoublePrefixB ==
  <<"s", "u", "m", "(", "7", ".", "2", ",", " ", "2", ".", "5", ")", " ",
    "=", " ">>

(***************************************************************************)
(* Properties.                                                             *)
(***************************************************************************)
IsPrefix(s, t) == Len(s) <= Len(t) /\ SubSeq(t, 1, Len(s)) = s

Ops(tr) == [i \in 1..Len(tr) |-> tr[i].op]

Count(tr, op) == Cardinality({i \in 1..Len(tr) : tr[i].op = op})

IsSumLine(l) == IsPrefix(<<"s", "u", "m", "(">>, l)

\* A line of decoration: any text line that is not a sum result.
IsDecorativeLine(l) == l # <<>> /\ ~IsSumLine(l)

LinesOfA == <<GreetingLineA, InputsLineA, SumLineA>>

LinesOfB ==
  <<<<>>, BannerOpenLineB, ToolchainLineB, HelloLineB, SumIntLineB,
    SumDoubleLineB, BannerCloseLineB, <<>>>>

\* The positions of the lines of an output that begin with the text p.
PrefixPositions(bytes, p) ==
  {i \in 1..Len(Lines(bytes)) : IsPrefix(p, Lines(bytes)[i])}

SumLinePositions(bytes) == {i \in 1..Len(Lines(bytes)) : IsSumLine(Lines(bytes)[i])}

\* Whether line i of Component B's output is as the source writes it; the
\* two sum lines are told by the text before the result.
IsLineOfB(i, l) ==
  IF i = 5 THEN IsPrefix(SumIntPrefixB, l)
  ELSE IF i = 6 THEN IsPrefix(SumDoublePrefixB, l)
  ELSE l = LinesOfB[i]

\* C1: every run of Component A writes exactly the three lines
\* "Hello, world!", "a = 5, b = 12", "a + b = c = 17" and nothing else:
\* what it has written is always a prefix of those bytes, and all of them
\* once main has returned.
C1_OutputOfA ==
  prog = "A" =>
    /\ IsPrefix(stdout, ExpectedOutputA)
    /\ pc = "done" =>
         /\ stdout = ExpectedOutputA
         /\ Lines(stdout) = LinesOfA
         /\ Unfinished(stdout) = <<>>

C1_Witness ==
  prog = "A" /\ pc = "done" /\ Cardinality(LineFeeds(stdout)) = 3

\* C2: in every run of Component B the value formatted into the first
\* templated message is sum applied to (5, 6), which is 11, and from then on
\* the output holds the line "sum(5, 6) = 11" exactly once.
C2_SumIntLine ==
  prog = "B" =>
    /\ pc = "L11" => tmp = <<IntVal(11)>>
    /\ pc \in {"L12sum", "L12", "L13", "L14", "done"} =>
         Cardinality(LinePositions(stdout, SumIntLineB)) = 1

C2_Witness ==
  prog = "B" /\ pc = "done" /\ LinePositions(stdout, SumIntLineB) # {}

\* C3: in every run of Component B the double sum(7.2, 2.5) is displayed as
\* 9.7, and from then on the output holds the line "sum(7.2, 2.5) = 9.7"
\* exactly once.
C3_SumDoubleLine ==
  prog = "B" =>
    /\ pc = "L12" =>
         /\ tmp = <<DoubleVal(DoubleLiteral(97, 1))>>
         /\ FormatArg(tmp[1]) = <<"9", ".", "7">>
    /\ pc \in {"L13", "L14", "done"} =>
         Cardinality(LinePositions(stdout, SumDoubleLineB)) = 1

C3_Witness ==
  prog = "B" /\ pc = "done" /\ LinePositions(stdout, SumDoubleLineB) # {}

C5_Deterministic ==
  /\ \A i, j \in 1..Len(history) :
       history[i].prog = history[j].prog =>
         /\ history[i].out = history[j].out
         /\ history[i].status = history[j].status
         /\ history[i].end = history[j].end
  /\ (prog \in Programs /\ pc = EntryLine(prog)) =>
       /\ locals = NoLocals
       /\ tmp = <<>>
       /\ stdout = <<>>
       /\ status = <<>>
       /\ trace = <<>>

C5_Witness ==
  \E i, j \in 1..Len(history) :
    i < j /\ history[i].prog = history[j].prog /\ history[i].out # <<>>

\* C6: in every run of Component A the greeting is printed first, then the
\* line of the two values, then the line of their sum, and main returns its
\* status only after the three lines.
C6_OrderOfA ==
  prog = "A" =>
    /\ IsPrefix(Lines(stdout), LinesOfA)
    /\ IsPrefix(Ops(trace),
                <<"decl", "decl", "decl", "puts", "printf", "printf", "return">>)
    /\ status # <<>> => Len(Lines(stdout)) = 3

C6_Witness ==
  prog = "A" /\ pc = "L12" /\ Lines(stdout) = <<GreetingLineA, InputsLineA>>

\* C7, as claimed: in every run of Component B every decorative line is
\* printed before the first sum result line.
C7_DecorationFirst ==
  prog = "B" =>
    \A i, j \in 1..Len(Lines(stdout)) :
      (IsDecorativeLine(Lines(stdout)[i]) /\ IsSumLine(Lines(stdout)[j])) => i < j

\* C7, amended: the opening banner, the toolchain line and the greeting are
\* printed before the first sum result line, the integer-pair result before
\* the floating-point-pair result, and the closing banner after both.
C7_OrderOfB ==
  prog = "B" =>
    /\ \A l \in {BannerOpenLineB, ToolchainLineB, HelloLineB} :
         /\ \A i \in LinePositions(stdout, l) : \A j \in SumLinePositions(stdout) : i < j
         /\ pc \in {"L11", "L12sum", "L12", "L13", "L14", "done"} =>
              LinePositions(stdout, l) # {}
    /\ \A i \in PrefixPositions(stdout, SumIntPrefixB) :
         \A j \in PrefixPositions(stdout, SumDoublePrefixB) : i < j
    /\ PrefixPositions(stdout, SumDoublePrefixB) # {} =>
         PrefixPositions(stdout, SumIntPrefixB) # {}
    /\ \A i \in LinePositions(stdout, BannerCloseLineB) :
         /\ \A j \in SumLinePositions(stdout) : j < i
         /\ PrefixPositions(stdout, SumIntPrefixB) # {}
         /\ PrefixPositions(stdout, SumDoublePrefixB) # {}
    /\ pc = "done" => LinePositions(stdout, BannerCloseLineB) # {}

C7_Witness ==
  /\ prog = "B"
  /\ pc = "done"
  /\ \E i \in PrefixPositions(stdout, SumDoublePrefixB) :
       \E j \in LinePositions(stdout, BannerCloseLineB) : i < j

\* C8: every started run of either program reaches its returned state, in
\* a fixed number of steps (7 for Component A, 9 for Component B), with no
\* statement executed twice and no step that is ever not ready to execute.
C8_Terminates ==
  /\ \A p \in Programs :
       (prog = p /\ pc = EntryLine(p)) ~> (prog = p /\ pc = "done")
  /\ [](pc = "done" => Len(trace) = IF prog = "A" THEN 7 ELSE 9)
  /\ [](\A i, j \in 1..Len(trace) : trace[i].line = trace[j].line => i = j)
  /\ []((prog \in Programs /\ pc \notin {"done", "aborted"}) => ENABLED Step)

C8_Witness ==
  prog = "B" /\ pc = "done" /\ Len(trace) = 9

\* C9: in Component A, from the declaration of c until main returns,
\* a = 5, b = 12 and c = a + b = 17, formed inside the range of int, and no
\* print statement changes a, b or c.
C9_SumOfLocals ==
  /\ []((prog = "A" /\ "c" \in DOMAIN locals) =>
          /\ locals.a = 5
          /\ locals.b = 12
          /\ IntAddInRange(locals.a, locals.b)
          /\ locals.c = locals.a + locals.b
          /\ locals.c = 17)
  /\ []((prog = "A" /\ pc \in {"L10", "L11", "L12", "L14", "done"}) =>
          DOMAIN locals = {"a", "b", "c"})
  /\ [][(prog = "A" /\ pc \in {"L10", "L11", "L12"}) => locals' = locals]_vars

C9_Witness ==
  prog = "A" /\ pc = "L14" /\ locals.c = 17 /\ Len(Lines(stdout)) = 3

\* C10: every run of Component B makes six std::println calls and two calls
\* of sum in this order: println, println, println, sum, println, sum,
\* println, println; the lines written are an empty line, the opening
\* banner, the toolchain line, the greeting, the two sum lines, the closing
\* banner and an empty line; the result of each sum call is at hand when its
\* line is printed.
C10_StepsOfB ==
  prog = "B" =>
    /\ IsPrefix(Ops(trace),
                <<"println", "println", "println", "sum", "println", "sum",
                  "println", "println", "return">>)
    /\ Len(Lines(stdout)) <= Len(LinesOfB)
    /\ \A i \in 1..Len(Lines(stdout)) : IsLineOfB(i, Lines(stdout)[i])
    /\ Unfinished(stdout) = <<>>
    /\ (tmp # <<>>) <=> (pc \in {"L11", "L12"})
    /\ pc = "done" =>
         /\ Count(trace, "println") = 6
         /\ Count(trace, "sum") = 2
         /\ Len(Lines(stdout)) = Len(LinesOfB)

C10_Witness ==
  prog = "B" /\ pc = "done" /\ Count(trace, "println") = 6 /\ Count(trace, "sum") = 2

=============================================================================
